---------------------------- MODULE Spec2Model ----------------------------
(***************************************************************************)
(* A model of tiefring's sprite.rs: Texture ids, Sprite and TileSet        *)
(* geometry, and the batching done by TextureRenderer::render.             *)
(*                                                                         *)
(* A u32 is kept at its full width as a pair <<hi, lo>> of 16-bit limbs    *)
(* (hi * 2^16 + lo); the arithmetic below is the machine's arithmetic on   *)
(* such pairs.  A Rust `*` or `+` on u32/u16 either panics (a build with   *)
(* overflow checks, the default debug profile) or wraps (the default       *)
(* release profile); the variable overflow_checks says which build runs.   *)
(***************************************************************************)
EXTENDS Integers, Sequences, FiniteSets, TLC

VARIABLES
    overflow_checks,  \* the build: TRUE panics on integer overflow, FALSE wraps
    INDEX,            \* Texture::new's static AtomicU32
    ids,              \* TextureIds handed out to textures the caller kept, in creation order
    bulk_runs,        \* how many runs of load-and-drop calls were taken
    tileset,          \* the TileSet the caller holds
    ret,              \* the latest call of the Sprite/TileSet interface with its result
    operations,       \* the operation list of the latest TextureRenderer::render call
    vertex_buffer,    \* TextureRenderer.vertex_buffer, the scratch list
    render_pass,      \* the draw calls the latest render call recorded on its pass
    render_ret        \* how the latest render call ended

vars == <<overflow_checks, INDEX, ids, bulk_runs, tileset, ret, operations, vertex_buffer,
          render_pass, render_ret>>

-----------------------------------------------------------------------------
(* Machine integers.                                                       *)

U16 == 65536

\* The u32 whose value is the small natural n.
N32(n) == <<n \div U16, n % U16>>

Zero32 == <<0, 0>>
One32 == <<0, 1>>
Max32 == <<U16 - 1, U16 - 1>>

Lt32(a, b) == a[1] < b[1] \/ (a[1] = b[1] /\ a[2] < b[2])
Le32(a, b) == ~Lt32(b, a)

\* a + b on u32: the wrapped sum and whether it overflowed.
Add32(a, b) ==
    LET lo == a[2] + b[2]
        hi == a[1] + b[1] + (lo \div U16)
    IN  [val |-> <<hi % U16, lo % U16>>, overflow |-> hi >= U16]

\* a - b for b <= a.
Sub32(a, b) ==
    LET borrow == IF a[2] < b[2] THEN 1 ELSE 0
    IN  <<a[1] - b[1] - borrow, a[2] + borrow * U16 - b[2]>>

\* The product of two limbs (each at most 2^16) as <<hi, lo>>, lo < 2^16.
Mul16(a, b) ==
    LET a1 == a \div 256
        a0 == a % 256
        b1 == b \div 256
        b0 == b % 256
        low == (a1 * b0 + a0 * b1) * 256 + a0 * b0
    IN  <<a1 * b1 + (low \div U16), low % U16>>

\* The full product of two limb pairs, most significant limb first; the three
\* lower limbs are below 2^16.
MulWide(a, b) ==
    LET ll == Mul16(a[2], b[2])
        lh == Mul16(a[2], b[1])
        hl == Mul16(a[1], b[2])
        hh == Mul16(a[1], b[1])
        t1 == ll[1] + lh[2] + hl[2]
        t2 == lh[1] + hl[1] + hh[2] + (t1 \div U16)
    IN  <<hh[1] + (t2 \div U16), t2 % U16, t1 % U16, ll[2]>>

LtWide(p, q) ==
    \E i \in 1..4 : p[i] < q[i] /\ \A j \in 1..(i - 1) : p[j] = q[j]
LeWide(p, q) == ~LtWide(q, p)

\* a * b on u32: the wrapped product and whether it overflowed.
Mul32(a, b) ==
    LET w == MulWide(a, b)
    IN  [val |-> <<w[3], w[4]>>, overflow |-> w[1] # 0 \/ w[2] # 0]

RECURSIVE Pow2(_)
Pow2(n) == IF n = 0 THEN 1 ELSE 2 * Pow2(n - 1)

\* Bit i (0 = least significant) of the u32 a.
Bit32(a, i) ==
    IF i >= 16 THEN (a[1] \div Pow2(i - 16)) % 2 ELSE (a[2] \div Pow2(i)) % 2

RECURSIVE DivStep(_, _, _, _)
\* Restoring division, bit 31 down to bit 0: qr = <<quotient, remainder>> so far.
\* (The step's result is bound as a value before the next step reads it.)
DivStep(a, b, i, qr) ==
    LET q2 == <<2 * qr[1][1] + (qr[1][2] \div 32768), (2 * qr[1][2]) % U16>>
        rl == 2 * qr[2][2] + Bit32(a, i)
        r2 == <<2 * qr[2][1] + (rl \div U16), rl % U16>>
        nx == IF Le32(b, r2) THEN <<<<q2[1], q2[2] + 1>>, Sub32(r2, b)>>
                             ELSE <<q2, r2>>
    IN  IF i = 0 THEN nx
        ELSE CHOOSE r \in {DivStep(a, b, j, v) : j \in {i - 1}, v \in {nx}} : TRUE

DivMod32(a, b) == DivStep(a, b, 31, <<Zero32, Zero32>>)

\* A division that rounds up.
Div32Up(a, b) ==
    LET qr == DivMod32(a, b)
    IN  IF qr[2] = Zero32 THEN qr[1] ELSE Add32(qr[1], One32).val

\* a / b on u32 for b # 0: the truncated quotient.
Div32(a, b) == DivMod32(a, b)[1]

\* `v as f32` for a u32 v: the nearest value with a 24-bit significand, ties to
\* even.  The result is an integer of at most 2^32, kept as <<hi, lo>> with
\* hi <= 2^16.
AsF32(v) ==
    IF v[1] < 256 THEN v
    ELSE LET s == CHOOSE k \in 1..8 : Pow2(k + 7) <= v[1] /\ v[1] < Pow2(k + 8)
             m == Pow2(s)
             rem == v[2] % m
             odd == (v[2] \div m) % 2 = 1
             up == 2 * rem > m \/ (2 * rem = m /\ odd)
             lo == (v[2] - rem) + (IF up THEN m ELSE 0)
         IN  <<v[1] + (lo \div U16), lo % U16>>

\* n / d on f32, for integer-valued n and d: kept as the pair <<n, d>>, the
\* exact quotient.  (The machine rounds it to the nearest f32; that rounding is
\* monotone and leaves 0 and 1 alone.)
F32Div(n, d) == <<n, d>>

\* The f32 literals 0.0 and 1.0.
F32Zero == <<Zero32, One32>>
F32One == <<One32, One32>>

\* Order and equality of two quotients with non-zero divisors.
RatLe(p, q) == LeWide(MulWide(p[1], q[2]), MulWide(q[1], p[2]))
RatEq(p, q) == MulWide(p[1], q[2]) = MulWide(q[1], p[2])

\* Whether b divides a (b # 0).
Divides32(b, a) == DivMod32(a, b)[2] = Zero32

\* A call's outcome: a value, or a panic.
Returned(v) == [panicked |-> FALSE, value |-> v]
Panicked(msg) == [panicked |-> TRUE, message |-> msg]

-----------------------------------------------------------------------------
(* Texture, Sprite, TileSet.                                               *)

Size(w, h) == [width |-> w, height |-> h]

\* INDEX.fetch_add(n, Relaxed): the value before, and the counter after (an
\* atomic add wraps in every build).
FetchAdd(counter, n) == [old |-> counter, new |-> Add32(counter, n).val]

\* Texture::new: the id drawn from the counter; the bind group and the
\* pipeline are the texture's own objects.
Texture_new(counter) ==
    LET id == FetchAdd(counter, One32)
    IN  [texture |-> [id |-> id.old,
                      texture_bind_group |-> [bind_group_of |-> id.old],
                      render_pipeline |-> [pipeline_of |-> id.old]],
         INDEX |-> id.new]

\* Sprite::load_data's Sprite around a fresh texture.
SpriteOfTexture(texture, dimensions) ==
    [dimensions |-> dimensions,
     tex_coords |-> [left |-> F32Zero, top |-> F32Zero,
                     right |-> F32One, bottom |-> F32One],
     texture |-> texture]

\* TileSet::load_data's TileSet around a fresh texture.
TileSetOfTexture(texture, dimensions, tile_dimensions) ==
    [dimensions |-> dimensions, tile_dimensions |-> tile_dimensions,
     texture |-> texture]

\* TileSet::tile_count.
tile_count(self) ==
    IF self.tile_dimensions.width = Zero32 \/ self.tile_dimensions.height = Zero32
    THEN Panicked("attempt to divide by zero")
    ELSE Returned(<<Div32(self.dimensions.width, self.tile_dimensions.width),
                    Div32(self.dimensions.height, self.tile_dimensions.height)>>)

\* A tile's far edge taken two tiles on.
TileEndSkip(i) == Add32(i, N32(2))

\* `x + 1`, `y + 1` in TileSet::sprite.
TileEnd(i) == Add32(i, One32)

\* (edge * tile) as f32 / sheet as f32, one coordinate of TileSet::sprite.
TexCoord(product, sheet) == F32Div(AsF32(product), AsF32(sheet))

\* TileSet::sprite(x, y) in a build with (checks) or without overflow checks.
sprite(self, x, y, checks) ==
    LET tile == self.tile_dimensions
        sheet == self.dimensions
        left == Mul32(x, tile.width)
        top == Mul32(y, tile.height)
        x1 == TileEnd(x)
        right == Mul32(x1.val, tile.width)
        y1 == TileEnd(y)
        bottom == Mul32(y1.val, tile.height)
        overflowed == \/ left.overflow \/ top.overflow \/ x1.overflow
                      \/ right.overflow \/ y1.overflow \/ bottom.overflow
    IN  IF checks /\ overflowed
        THEN Panicked("arithmetic overflow")
        ELSE Returned([dimensions |-> tile,
                       tex_coords |-> [left |-> TexCoord(left.val, sheet.width),
                                       top |-> TexCoord(top.val, sheet.height),
                                       right |-> TexCoord(right.val, sheet.width),
                                       bottom |-> TexCoord(bottom.val, sheet.height)],
                       texture |-> self.texture])

-----------------------------------------------------------------------------
(* The Sprite / TileSet interface as steps of the program.                 *)

MaxTextures == 2
MaxBulkRuns == 2
MaxDim == 3

NoTileSet == [none |-> TRUE]
NoCall == [call |-> "none"]

RenderVars == <<operations, vertex_buffer, render_pass, render_ret>>

\* Sprite::load_data(canvas, rgba, dimensions); the caller keeps the Sprite.
Sprite_load_data(dimensions) ==
    /\ Len(ids) < MaxTextures
    /\ LET new == Texture_new(INDEX)
       IN  /\ INDEX' = new.INDEX
           /\ ids' = Append(ids, new.texture.id)
           /\ ret' = [call |-> "Sprite::load_data",
                      result |-> Returned(SpriteOfTexture(new.texture, dimensions))]
    /\ UNCHANGED <<overflow_checks, bulk_runs, tileset, RenderVars>>

\* TileSet::load_data(canvas, rgba, dimensions, tile_dimensions); the caller
\* keeps the TileSet (in place of the one it held).
TileSet_load_data(dimensions, tile_dimensions) ==
    /\ Len(ids) < MaxTextures
    /\ LET new == Texture_new(INDEX)
           made == TileSetOfTexture(new.texture, dimensions, tile_dimensions)
       IN  /\ INDEX' = new.INDEX
           /\ ids' = Append(ids, new.texture.id)
           /\ tileset' = made
           /\ ret' = [call |-> "TileSet::load_data", result |-> Returned(made)]
    /\ UNCHANGED <<overflow_checks, bulk_runs, RenderVars>>

\* n calls of Sprite::load_data in a row whose Sprites the caller drops at
\* once: n fetch_add(1) on the counter, nothing kept.
LoadAndDrop(n) ==
    /\ bulk_runs < MaxBulkRuns
    /\ bulk_runs' = bulk_runs + 1
    /\ INDEX' = FetchAdd(INDEX, n).new
    /\ ret' = [call |-> "Sprite::load_data, dropped", times |-> n]
    /\ UNCHANGED <<overflow_checks, ids, tileset, RenderVars>>

\* self.tile_count() on the TileSet held.
TileSet_tile_count ==
    /\ tileset # NoTileSet
    /\ ret' = [call |-> "TileSet::tile_count", self |-> tileset,
               result |-> tile_count(tileset)]
    /\ UNCHANGED <<overflow_checks, INDEX, ids, bulk_runs, tileset, RenderVars>>

\* self.sprite(x, y) on the TileSet held; no bounds check on x and y.
TileSet_sprite(x, y) ==
    /\ tileset # NoTileSet
    /\ ret' = [call |-> "TileSet::sprite", self |-> tileset, x |-> x, y |-> y,
               result |-> sprite(tileset, x, y, overflow_checks)]
    /\ UNCHANGED <<overflow_checks, INDEX, ids, bulk_runs, tileset, RenderVars>>

\* Inputs.  A sheet has no zero side (the device refuses such a texture); a tile
\* size is unchecked.
Small32 == {N32(n) : n \in 0..MaxDim}
SheetWidths == (Small32 \ {Zero32}) \cup {N32(100), <<256, 1>>, Max32}
SheetHeights == {One32, N32(50)}
TileWidths == Small32 \cup {N32(32), <<1, 0>>, Max32}
TileHeights == {Zero32, One32, N32(32)}
TileXs == Small32 \cup {<<1, 0>>, Max32}
TileYs == {Zero32, One32}

RenderInit ==
    /\ operations = <<>>
    /\ vertex_buffer = <<>>
    /\ render_pass = <<>>
    /\ render_ret = NoCall

\* The program's start: no texture made, nothing held, nothing rendered.
Init ==
    /\ overflow_checks \in BOOLEAN
    /\ INDEX = Zero32
    /\ ids = <<>>
    /\ bulk_runs = 0
    /\ tileset = NoTileSet
    /\ ret = NoCall
    /\ RenderInit

\* TileSet geometry: the states right after the program's first
\* TileSet::load_data, then tile_count, sprite and Sprite::load_data.
InitTile ==
    /\ overflow_checks \in BOOLEAN
    /\ \E w \in SheetWidths, h \in SheetHeights, tw \in TileWidths, th \in TileHeights :
          LET new == Texture_new(Zero32)
              made == TileSetOfTexture(new.texture, Size(w, h), Size(tw, th))
          IN  /\ INDEX = new.INDEX
              /\ ids = <<new.texture.id>>
              /\ bulk_runs = 0
              /\ tileset = made
              /\ ret = [call |-> "TileSet::load_data", result |-> Returned(made)]
    /\ RenderInit

NextTile ==
    \/ TileSet_tile_count
    \/ \E x \in TileXs, y \in TileYs : TileSet_sprite(x, y)
    \/ \E w \in {One32, N32(100)} : Sprite_load_data(Size(w, N32(50)))

SpecTile == InitTile /\ [][NextTile]_vars

\* Texture ids: every way a texture is made, from the program's start.
BulkCounts == {<<U16 - 1, U16 - 2>>, Max32}

NextTexture ==
    \/ \E w \in {One32, N32(2)} : Sprite_load_data(Size(w, One32))
    \/ \E w \in {One32, N32(2)}, tw \in {Zero32, One32} :
          TileSet_load_data(Size(w, One32), Size(tw, One32))
    \/ \E n \in BulkCounts : LoadAndDrop(n)

SpecTexture == Init /\ [][NextTexture]_vars

-----------------------------------------------------------------------------
(* TextureRenderer::render.                                                *)

MaxOps == 3

Rect(l, t, r, b) == [left |-> l, top |-> t, right |-> r, bottom |-> b]

\* renderer::depth(index): the depth value of an order index.
depth(index) == [depth_of |-> index]

\* The DrawTextureOperation the canvas records for drawing a sprite at a
\* destination with an order index.
DrawTextureOperation(index, from, destination) ==
    [index |-> index, destination |-> destination,
     tex_coords |-> from.tex_coords, texture |-> from.texture]

\* One corner of an operation's quad: 0 top-left, 1 bottom-left, 2 bottom-right,
\* 3 top-right (the order of the array in the flat_map closure).
TextureVertex(operation, corner) ==
    LET d == operation.destination
        tc == operation.tex_coords
        z == depth(operation.index)
    IN  CASE corner = 0 -> [position |-> <<d.left, d.top, z>>,
                            tex_coords |-> <<tc.left, tc.top>>]
          [] corner = 1 -> [position |-> <<d.left, d.bottom, z>>,
                            tex_coords |-> <<tc.left, tc.bottom>>]
          [] corner = 2 -> [position |-> <<d.right, d.bottom, z>>,
                            tex_coords |-> <<tc.right, tc.bottom>>]
          [] corner = 3 -> [position |-> <<d.right, d.top, z>>,
                            tex_coords |-> <<tc.right, tc.top>>]

\* The quad's corners with the last two swapped.
QuadCornerSwapped(j) == IF j % 4 = 2 THEN 3 ELSE IF j % 4 = 3 THEN 2 ELSE j % 4

\* The corner that vertex j (0-based) of a group is.
QuadCorner(j) == j % 4

\* The group's vertices: four per operation, in the operations' order.
Vertices(group) ==
    [j \in 1..(4 * Len(group)) |->
        TextureVertex(group[((j - 1) \div 4) + 1], QuadCorner(j - 1))]

\* `index as u16 * 4` and the six indices of quad number index: the cast keeps
\* the low 16 bits, the product then overflows u16 from index 16384 on.
QuadIndices(index) ==
    LET product == (index % U16) * 4
        step == product % U16
    IN  [overflow |-> product >= U16,
         val |-> <<step + 0, step + 1, step + 2, step + 2, step + 3, step + 0>>]

\* The group's indices: six per operation.
Indices(n) == [j \in 1..(6 * n) |-> QuadIndices((j - 1) \div 6).val[((j - 1) % 6) + 1]]

\* Whether building the indices of a group of n operations overflows u16.
IndicesOverflow(n) == \E k \in 0..(n - 1) : QuadIndices(k).overflow

\* `indices.len() as u32`: the low 32 bits of a usize.
LenAsU32(n) == ((n \div U16) % U16) * U16 + (n % U16)

\* The operations with the given order index, in submission order
\* (one value of into_group_map_by's map).
GroupOf(ops, key) == SelectSeq(ops, LAMBDA op : op.index = key)

RECURSIVE Descending(_)
\* A set of order indices in descending order.
Descending(keys) ==
    IF keys = {} THEN <<>>
    ELSE LET m == CHOOSE x \in keys : \A y \in keys : y <= x
         IN  <<m>> \o Descending(keys \ {m})

RECURSIVE Ascending(_)
\* A set of order indices in ascending order.
Ascending(keys) ==
    IF keys = {} THEN <<>>
    ELSE LET m == CHOOSE x \in keys : \A y \in keys : x <= y
         IN  <<m>> \o Ascending(keys \ {m})

\* The distinct order indices, descending.
ReverseSortedKeys(ops) == Descending({ops[i].index : i \in 1..Len(ops)})

\* sorted_op.keys().sorted(): the distinct order indices, ascending.
SortedKeys(ops) == Ascending({ops[i].index : i \in 1..Len(ops)})

\* The texture of a group's last operation.
LastTexture(group) == group[Len(group)].texture

\* operations.first()'s texture (a group is never empty).
FirstTexture(group) == group[1].texture

\* The scratch-list entry pushed for a group: (vertex_buffer, texture, indices,
\* index_buffer), each buffer standing for its contents.
GroupEntry(group) ==
    LET indices == Indices(Len(group))
    IN  [vertex_buffer |-> Vertices(group),
         texture |-> FirstTexture(group),
         indices |-> indices,
         index_buffer |-> indices]

\* self.vertex_buffer.clear().
Cleared(list) == <<>>

\* The commands of the second loop for entry number slot of the scratch list.
DrawCall(list, slot) ==
    [set_pipeline |-> list[slot].texture.render_pipeline,
     set_bind_group_0 |-> "camera_bind_group",
     set_bind_group_1 |-> list[slot].texture.texture_bind_group,
     set_vertex_buffer |-> [slot |-> slot],
     set_index_buffer |-> [slot |-> slot, format |-> "Uint16"],
     draw_indexed |-> [indices |-> <<0, LenAsU32(Len(list[slot].indices))>>,
                       base_vertex |-> 0, instances |-> <<0, 1>>]]

\* TextureRenderer::render on the scratch list `list` with operation list ops,
\* in a build with (checks) or without overflow checks: the scratch list and
\* the draw calls it leaves, and how it ended.  The first loop pushes one entry
\* per key, in ascending order, and panics at the first group whose indices
\* overflow when the build checks; the second loop draws every entry.
render(list, ops, checks) ==
    LET keys == SortedKeys(ops)
        overflowing == {i \in 1..Len(keys) :
                            checks /\ IndicesOverflow(Len(GroupOf(ops, keys[i])))}
        built == IF overflowing = {} THEN Len(keys)
                 ELSE (CHOOSE i \in overflowing : \A j \in overflowing : i <= j) - 1
        pushed == Cleared(list) \o [i \in 1..built |-> GroupEntry(GroupOf(ops, keys[i]))]
    IN  IF overflowing = {}
        THEN [vertex_buffer |-> pushed,
              render_pass |-> [slot \in 1..Len(pushed) |-> DrawCall(pushed, slot)],
              ret |-> Returned("()")]
        ELSE [vertex_buffer |-> pushed,
              render_pass |-> <<>>,
              ret |-> Panicked("attempt to multiply with overflow")]

\* self.render(render_pass, context, camera, &operations) on a fresh pass.
TextureRenderer_render(ops) ==
    /\ LET done == render(vertex_buffer, ops, overflow_checks)
       IN  /\ vertex_buffer' = done.vertex_buffer
           /\ render_pass' = done.render_pass
           /\ render_ret' = [call |-> "TextureRenderer::render", result |-> done.ret]
    /\ operations' = ops
    /\ UNCHANGED <<overflow_checks, INDEX, ids, bulk_runs, tileset, ret>>

\* Inputs: a Sprite from Sprite::load_data and a tile of a 2x2 TileSet, drawn
\* at two destinations with order indices 1, 3 and 5.
FirstTextureMade == Texture_new(Zero32)
SecondTextureMade == Texture_new(FirstTextureMade.INDEX)
LoadedSprite == SpriteOfTexture(FirstTextureMade.texture, Size(N32(100), N32(50)))
LoadedTileSet ==
    TileSetOfTexture(SecondTextureMade.texture, Size(N32(2), N32(2)), Size(One32, One32))
TileSprite == sprite(LoadedTileSet, One32, Zero32, FALSE).value

F32Of(n) == <<N32(n), One32>>
NearDestination == Rect(F32Of(0), F32Of(1), F32Of(2), F32Of(3))
FarDestination == Rect(F32Of(4), F32Of(5), F32Of(6), F32Of(7))

OperationValues ==
    {DrawTextureOperation(1, LoadedSprite, NearDestination),
     DrawTextureOperation(1, TileSprite, FarDestination),
     DrawTextureOperation(3, LoadedSprite, FarDestination),
     DrawTextureOperation(5, TileSprite, NearDestination)}

\* The least number of operations in one group whose last quad's indices
\* overflow u16: 4 * 16384 = 2^16.
OverflowingGroup == (U16 \div 4) + 1

\* OverflowingGroup operations that share order index 3.
LargeOperationList ==
    [i \in 1..OverflowingGroup |-> DrawTextureOperation(3, LoadedSprite, FarDestination)]

OperationLists == UNION {[1..n -> OperationValues] : n \in 0..MaxOps}

\* Rendering: the states after the two loads, then any number of render calls.
InitRender ==
    /\ overflow_checks \in BOOLEAN
    /\ INDEX = SecondTextureMade.INDEX
    /\ ids = <<FirstTextureMade.texture.id, SecondTextureMade.texture.id>>
    /\ bulk_runs = 0
    /\ tileset = LoadedTileSet
    /\ ret = [call |-> "TileSet::sprite", self |-> LoadedTileSet, x |-> One32,
              y |-> Zero32, result |-> Returned(TileSprite)]
    /\ RenderInit

NextRender == \E ops \in OperationLists : TextureRenderer_render(ops)

SpecRender == InitRender /\ [][NextRender]_vars

\* The same with the large operation list among the inputs.
NextRenderLarge ==
    \E ops \in OperationLists \cup {LargeOperationList} : TextureRenderer_render(ops)

SpecRenderLarge == InitRender /\ [][NextRenderLarge]_vars

-----------------------------------------------------------------------------
(* Claims about TileSet and Sprite geometry (SpecTile).                    *)

\* The latest call was self.sprite(x, y) with x < tile_count().0 and
\* y < tile_count().1 (so tile_count() returned).
ValidTileCall ==
    /\ ret.call = "TileSet::sprite"
    /\ LET count == tile_count(ret.self)
       IN  /\ ~count.panicked
           /\ Lt32(ret.x, count.value[1])
           /\ Lt32(ret.y, count.value[2])

\* A u32 that `as f32` leaves as it is: below 2^24.
F32Exact(v) == v[1] < 256

\* lo = i / count and hi = (i + 1) / count as exact ratios.
TileRatios(lo, hi, i, count) ==
    /\ RatEq(lo, <<i, count>>)
    /\ RatEq(hi, <<Add32(i, One32).val, count>>)

\* C4 as stated: for every TileSet with non-zero tile dimensions, whether or not
\* the tile size divides the sheet, and every tile index within tile_count(),
\* sprite(x, y).tex_coords has left = x / tileCountX, right = (x+1) / tileCountX,
\* top = y / tileCountY and bottom = (y+1) / tileCountY as exact ratios.
C4_TexCoordsAreTileFractions ==
    ValidTileCall =>
        /\ ~ret.result.panicked
        /\ LET count == tile_count(ret.self).value
               tc == ret.result.value.tex_coords
           IN  /\ TileRatios(tc.left, tc.right, ret.x, count[1])
               /\ TileRatios(tc.top, tc.bottom, ret.y, count[2])

\* C4 amended: the same equalities hold along an axis when the tile size divides
\* the sheet size along that axis and the sheet size is below 2^24 (where the
\* conversions to f32 are exact): left and right for the widths, top and bottom
\* for the heights.
C4_TexCoordsAreTileFractionsWhenTilesDivideSheet ==
    ValidTileCall =>
        /\ ~ret.result.panicked
        /\ LET count == tile_count(ret.self).value
               tc == ret.result.value.tex_coords
               sheet == ret.self.dimensions
               tile == ret.self.tile_dimensions
           IN  /\ (Divides32(tile.width, sheet.width) /\ F32Exact(sheet.width))
                    => TileRatios(tc.left, tc.right, ret.x, count[1])
               /\ (Divides32(tile.height, sheet.height) /\ F32Exact(sheet.height))
                    => TileRatios(tc.top, tc.bottom, ret.y, count[2])

\* A tile that is not the first of a sheet of several tiles across, cut evenly.
C4_Witness ==
    /\ ValidTileCall
    /\ ret.x # Zero32
    /\ Divides32(ret.self.tile_dimensions.width, ret.self.dimensions.width)
    /\ Divides32(ret.self.tile_dimensions.height, ret.self.dimensions.height)
    /\ F32Exact(ret.self.dimensions.width)
    /\ ~ret.result.panicked

\* 0 <= lo <= hi <= 1 for two f32 quotients.
InUnitInterval(lo, hi) ==
    /\ lo[2] # Zero32 /\ hi[2] # Zero32
    /\ RatLe(F32Zero, lo)
    /\ RatLe(lo, hi)
    /\ RatLe(hi, F32One)

\* C5: every Sprite from Sprite::load_data, and every Sprite from
\* TileSet::sprite(x, y) with x and y within tile_count(), has
\* 0 <= left <= right <= 1 and 0 <= top <= bottom <= 1, the products being
\* computed in u32.
C5_TexCoordsWithinUnitSquare ==
    (ret.call = "Sprite::load_data" \/ ValidTileCall) =>
        /\ ~ret.result.panicked
        /\ LET tc == ret.result.value.tex_coords
           IN  /\ InUnitInterval(tc.left, tc.right)
               /\ InUnitInterval(tc.top, tc.bottom)

\* The last tile across a sheet whose width is not exact in f32.
C5_Witness ==
    /\ ValidTileCall
    /\ ~F32Exact(ret.self.dimensions.width)
    /\ ret.x # Zero32
    /\ ~ret.result.panicked

\* count is sheet / tile truncated: count * tile <= sheet < (count + 1) * tile.
IsTruncatedQuotient(count, sheet, tile) ==
    LET w == MulWide(count, tile)
        product == <<w[3], w[4]>>
    IN  /\ w[1] = 0 /\ w[2] = 0
        /\ Le32(product, sheet)
        /\ Lt32(Sub32(sheet, product), tile)

\* C8: tile_count() is (sheetWidth / tileWidth, sheetHeight / tileHeight) with
\* truncating division (a 100x50 sheet of 32x32 tiles gives (3, 1)), and a zero
\* tile width or height gives a division-by-zero failure, not a count.
C8_TileCountTruncates ==
    ret.call = "TileSet::tile_count" =>
        LET sheet == ret.self.dimensions
            tile == ret.self.tile_dimensions
        IN  IF tile.width = Zero32 \/ tile.height = Zero32
            THEN ret.result.panicked
            ELSE /\ ~ret.result.panicked
                 /\ IsTruncatedQuotient(ret.result.value[1], sheet.width, tile.width)
                 /\ IsTruncatedQuotient(ret.result.value[2], sheet.height, tile.height)
                 /\ (sheet = Size(N32(100), N32(50)) /\ tile = Size(N32(32), N32(32)))
                      => ret.result.value = <<N32(3), N32(1)>>

\* tile_count() returned on the 100x50 sheet of 32x32 tiles.
C8_Witness ==
    /\ ret.call = "TileSet::tile_count"
    /\ ret.self.dimensions = Size(N32(100), N32(50))
    /\ ret.self.tile_dimensions = Size(N32(32), N32(32))
    /\ ~ret.result.panicked

-----------------------------------------------------------------------------
(* Claims about TextureIds (SpecTexture).                                  *)

\* C6: the TextureIds handed out are pairwise distinct and strictly increasing
\* in creation order, starting at 0, however many textures are made.
C6_TextureIdsStrictlyIncreasing ==
    /\ \A i, j \in 1..Len(ids) : i < j => Lt32(ids[i], ids[j])
    /\ bulk_runs = 0 => \A i \in 1..Len(ids) : ids[i] = N32(i - 1)

-----------------------------------------------------------------------------
(* Claims about TextureRenderer::render (SpecRender, SpecRenderLarge).     *)

\* The order indices of an operation list, in submission order.
IndicesOf(ops) == [i \in 1..Len(ops) |-> ops[i].index]

\* The order index a scratch-list entry was built for, read off the depth of its
\* first vertex.
EntryIndex(entry) == entry.vertex_buffer[1].position[3].depth_of

\* The order index of the group a draw call draws.
DrawIndex(draw) == EntryIndex(vertex_buffer[draw.set_vertex_buffer.slot])

\* The operations of the latest call that have the entry's order index.
EntryGroup(entry) == SelectSeq(operations, LAMBDA op : op.index = EntryIndex(entry))

\* C1: the draw calls of a render call are issued in strictly ascending order
\* of order index whatever the submission order (5, 1, 3 is drawn 1, 3, 5):
\* each draw call is for one order index of the list, a draw call for a lower
\* index comes before one for a higher index, and a call that returns has
\* drawn every order index of the list.
C1_DrawsInAscendingIndexOrder ==
    /\ \A i \in 1..Len(render_pass) :
          \E k \in 1..Len(operations) : operations[k].index = DrawIndex(render_pass[i])
    /\ \A i, j \in 1..Len(render_pass) :
          i < j => DrawIndex(render_pass[i]) < DrawIndex(render_pass[j])
    /\ (render_ret # NoCall /\ ~render_ret.result.panicked) =>
          \A k \in 1..Len(operations) :
              \E i \in 1..Len(render_pass) : DrawIndex(render_pass[i]) = operations[k].index

\* Operations submitted with indices 5, 1, 3 were drawn as 1, 3, 5.
C1_Witness ==
    /\ IndicesOf(operations) = <<5, 1, 3>>
    /\ [i \in 1..Len(render_pass) |-> DrawIndex(render_pass[i])] = <<1, 3, 5>>

\* C2: a render call with N >= 1 operations that all share one order index
\* produces exactly one draw call, with 4*N vertices, 6*N indices and
\* draw_indexed range 0..6*N, whatever the textures.
C2_OneDrawCallForOneIndex ==
    (/\ render_ret # NoCall
     /\ Len(operations) >= 1
     /\ \A i \in 1..Len(operations) : operations[i].index = operations[1].index) =>
        /\ Len(render_pass) = 1
        /\ Len(vertex_buffer) = 1
        /\ Len(vertex_buffer[1].vertex_buffer) = 4 * Len(operations)
        /\ Len(vertex_buffer[1].indices) = 6 * Len(operations)
        /\ render_pass[1].draw_indexed.indices = <<0, 6 * Len(operations)>>

\* C3: after any sequence of render calls the scratch list holds exactly one
\* entry per distinct order index of the latest call's operation list and
\* nothing else, and that call issued exactly that many draw calls; an empty
\* operation list leaves the list empty and issues no draw call.
C3_ScratchListIsOfLatestCall ==
    render_ret # NoCall =>
        LET keys == {operations[i].index : i \in 1..Len(operations)}
        IN  /\ Len(vertex_buffer) = Cardinality(keys)
            /\ Len(render_pass) = Cardinality(keys)
            /\ {EntryIndex(vertex_buffer[s]) : s \in 1..Len(vertex_buffer)} = keys
            /\ \A s \in 1..Len(vertex_buffer) :
                  Len(vertex_buffer[s].vertex_buffer) = 4 * Len(EntryGroup(vertex_buffer[s]))
            /\ operations = <<>> => (vertex_buffer = <<>> /\ render_pass = <<>>)

\* The four vertices of one operation, as the claim lists them: top-left,
\* bottom-left, bottom-right, top-right of the destination, each with the same
\* corner of tex_coords, all at one depth.
IsQuadOf(v0, v1, v2, v3, op) ==
    LET d == op.destination
        tc == op.tex_coords
    IN  /\ <<v0.position[1], v0.position[2]>> = <<d.left, d.top>>
        /\ <<v1.position[1], v1.position[2]>> = <<d.left, d.bottom>>
        /\ <<v2.position[1], v2.position[2]>> = <<d.right, d.bottom>>
        /\ <<v3.position[1], v3.position[2]>> = <<d.right, d.top>>
        /\ v0.tex_coords = <<tc.left, tc.top>>
        /\ v1.tex_coords = <<tc.left, tc.bottom>>
        /\ v2.tex_coords = <<tc.right, tc.bottom>>
        /\ v3.tex_coords = <<tc.right, tc.top>>
        /\ v1.position[3] = v0.position[3]
        /\ v2.position[3] = v0.position[3]
        /\ v3.position[3] = v0.position[3]

\* The operation draws a Sprite made by Sprite::load_data.
OfLoadedSprite(op) == op.tex_coords = Rect(F32Zero, F32Zero, F32One, F32One)

\* C7: the k-th operation of a group (0-based, in submission order) contributes
\* vertices 4k..4k+3 of the group, in the corner order top-left, bottom-left,
\* bottom-right, top-right, each with the same corner of its tex_coords and all
\* four at one depth; a Sprite from load_data so emits (0,0), (0,1), (1,1), (1,0).
C7_QuadVerticesInCornerOrder ==
    \A s \in 1..Len(vertex_buffer) :
        LET vs == vertex_buffer[s].vertex_buffer
            group == EntryGroup(vertex_buffer[s])
        IN  /\ Len(vs) = 4 * Len(group)
            /\ \A k \in 0..(Len(group) - 1) :
                  /\ IsQuadOf(vs[4 * k + 1], vs[4 * k + 2], vs[4 * k + 3], vs[4 * k + 4],
                              group[k + 1])
                  /\ OfLoadedSprite(group[k + 1]) =>
                        <<vs[4 * k + 1].tex_coords, vs[4 * k + 2].tex_coords,
                          vs[4 * k + 3].tex_coords, vs[4 * k + 4].tex_coords>>
                        = <<<<F32Zero, F32Zero>>, <<F32Zero, F32One>>,
                            <<F32One, F32One>>, <<F32One, F32Zero>>>>

\* A group whose second operation draws the loaded Sprite and whose first draws
\* the tile.
C7_Witness ==
    \E s \in 1..Len(vertex_buffer) :
        LET group == EntryGroup(vertex_buffer[s])
        IN  /\ Len(group) >= 2
            /\ OfLoadedSprite(group[2])
            /\ ~OfLoadedSprite(group[1])

\* C9: in a group of N operations the six indices of the k-th operation are
\* 4k+0, 4k+1, 4k+2, 4k+2, 4k+3, 4k+0, for every N and every k < N, so each is
\* below 4*N.
C9_QuadIndicesAreOffsetByFourK ==
    \A s \in 1..Len(vertex_buffer) :
        LET ix == vertex_buffer[s].indices
            n == Len(EntryGroup(vertex_buffer[s]))
        IN  /\ Len(ix) = 6 * n
            /\ \A k \in 0..(n - 1) :
                  /\ <<ix[6 * k + 1], ix[6 * k + 2], ix[6 * k + 3],
                       ix[6 * k + 4], ix[6 * k + 5], ix[6 * k + 6]>>
                     = <<4 * k, 4 * k + 1, 4 * k + 2, 4 * k + 2, 4 * k + 3, 4 * k>>
                  /\ \A j \in 1..6 : ix[6 * k + j] < 4 * n

\* C10: a group's draw call binds the pipeline and the bind group 1 of the
\* texture of the first operation, in submission order, that has the group's
\* order index; the group holds 4 vertices and 6 indices for every operation of
\* that index whatever its texture; and no order index is drawn twice.
C10_GroupDrawnWithFirstTexture ==
    /\ \A i \in 1..Len(render_pass) :
          LET entry == vertex_buffer[render_pass[i].set_vertex_buffer.slot]
              first == CHOOSE k \in 1..Len(operations) :
                          /\ operations[k].index = EntryIndex(entry)
                          /\ \A m \in 1..(k - 1) : operations[m].index # EntryIndex(entry)
              sharing == {k \in 1..Len(operations) : operations[k].index = EntryIndex(entry)}
          IN  /\ render_pass[i].set_pipeline = operations[first].texture.render_pipeline
              /\ render_pass[i].set_bind_group_1 = operations[first].texture.texture_bind_group
              /\ render_pass[i].set_index_buffer.slot = render_pass[i].set_vertex_buffer.slot
              /\ Len(entry.vertex_buffer) = 4 * Cardinality(sharing)
              /\ Len(entry.indices) = 6 * Cardinality(sharing)
    /\ \A i, j \in 1..Len(render_pass) :
          DrawIndex(render_pass[i]) = DrawIndex(render_pass[j]) => i = j

\* A group drawn with the loaded Sprite's texture whose second operation has the
\* TileSet's texture.
C10_Witness ==
    \E i \in 1..Len(render_pass) :
        LET group == EntryGroup(vertex_buffer[render_pass[i].set_vertex_buffer.slot])
        IN  /\ Len(group) >= 2
            /\ group[1].texture = LoadedSprite.texture
            /\ group[2].texture = TileSprite.texture
            /\ render_pass[i].set_pipeline = LoadedSprite.texture.render_pipeline

=============================================================================
